---------------------------- MODULE Spec2Model ----------------------------
(***************************************************************************)
(* SimplerHashTable (src/coreclr/inc/simplerhash.inl): an open-chaining    *)
(* hash table with prime-sized bucket arrays, magic-number remainder and   *)
(* rehash-in-place growth.                                                 *)
(*                                                                         *)
(* C `unsigned` values that may exceed 2^31-1 (hash codes, magic numbers,  *)
(* intermediate products) are kept as pairs <<hi, lo>> of 16-bit halves,   *)
(* so that every operation is computed in its C width.                     *)
(***************************************************************************)
EXTENDS Integers, Sequences, FiniteSets, TLC

(***************************************************************************)
(* Bounds of the model.                                                    *)
(***************************************************************************)
NumKeys == 3
NumVals == 2
MaxNodes == 3
MaxArrays == 2

Keys == 1..NumKeys
Vals == 1..NumVals
NodeAddrs == 1..MaxNodes
ArrAddrs == 1..MaxArrays
NULL == 0

(***************************************************************************)
(* 32-bit unsigned arithmetic on <<hi, lo>> pairs.                         *)
(***************************************************************************)
W16 == 65536

U32(n) == <<n \div W16, n % W16>>

ValU32(x) == x[1] * W16 + x[2]

\* full 32-bit product of two 16-bit halves, as <<hi, lo>>
Mul16(a, b) ==
    LET x == a * (b \div 256)
        y == a * (b % 256)
        s == (x % 256) * 256 + y
    IN  <<(x \div 256) + (s \div W16), s % W16>>

\* unsigned * unsigned: the low 32 bits of the product
MulU32(x, y) ==
    LET ll == Mul16(x[2], y[2])
        lh == Mul16(x[2], y[1])
        hl == Mul16(x[1], y[2])
    IN  <<(ll[1] + lh[2] + hl[2]) % W16, ll[2]>>

\* uint64_t * uint64_t of two 32-bit values: the four 16-bit words <<w3, w2, w1, w0>>
MulU64(x, y) ==
    LET ll == Mul16(x[2], y[2])
        lh == Mul16(x[2], y[1])
        hl == Mul16(x[1], y[2])
        hh == Mul16(x[1], y[1])
        t1 == ll[1] + lh[2] + hl[2]
        t2 == lh[1] + hl[1] + hh[2] + (t1 \div W16)
    IN  <<hh[1] + (t2 \div W16), t2 % W16, t1 % W16, ll[2]>>

Pow2(n) == 2 ^ n

\* x >> s for a 32-bit x, 0 <= s < 32
ShrU32(x, s) ==
    IF s >= 16
    THEN <<0, x[1] \div Pow2(s - 16)>>
    ELSE <<x[1] \div Pow2(s), (x[1] % Pow2(s)) * Pow2(16 - s) + (x[2] \div Pow2(s))>>

\* unsigned - unsigned, modulo 2^32
SubU32(x, y) ==
    LET lo == x[2] - y[2]
        borrow == IF lo < 0 THEN 1 ELSE 0
    IN  <<(x[1] - y[1] - borrow) % W16, lo % W16>>

\* unsigned / d for a divisor 0 < d < 2^15
DivU32(x, d) ==
    LET r == x[1] % d
    IN  <<x[1] \div d, (r * W16 + x[2]) \div d>>

LtU32(x, y) == x[1] < y[1] \/ (x[1] = y[1] /\ x[2] < y[2])

(***************************************************************************)
(* The prime / magic-number table and the policies of an instantiation.    *)
(***************************************************************************)
PI(p, mhi, mlo, s) == [prime |-> p, magic |-> <<mhi, mlo>>, shift |-> s]

\* extern const PrimeInfo primeInfo[27]; magic == ceil(2^(32+shift) / prime)
primeInfo ==
    << PI(9, 14563, 36409, 1),        PI(23, 45590, 17097, 4),
       PI(59, 8886, 15551, 3),        PI(131, 64035, 11507, 7),
       PI(239, 35098, 51003, 7),      PI(433, 2421, 42833, 4),
       PI(761, 22046, 18085, 8),      PI(1399, 47969, 10915, 10),
       PI(2473, 27136, 40705, 10),    PI(4327, 62037, 20553, 12),
       PI(7499, 17898, 5471, 11),     PI(12973, 5172, 63187, 10),
       PI(22433, 11966, 6363, 12),    PI(46559, 46123, 60373, 15),
       PI(96581, 44470, 6939, 16),    PI(200341, 10719, 9313, 15),
       PI(415517, 41345, 50285, 18),  PI(861719, 19936, 48613, 18),
       PI(1787021, 38454, 50287, 20), PI(3705617, 18544, 44481, 20),
       PI(7684087, 35772, 23427, 22), PI(15933877, 34502, 21345, 23),
       PI(33040633, 16638, 51099, 23), PI(68513161, 32096, 23761, 25),
       PI(142069021, 61914, 14603, 27), PI(294594427, 29858, 20605, 27),
       PI(733045421, 23998, 50247, 28) >>

\* PrimeInfo(): the size descriptor of a table that has no bucket array
NoPrimeInfo == [prime |-> 0, magic |-> <<0, 0>>, shift |-> 0]

\* the marker NextPrime yields when it runs off the table into Behavior::NoMemory()
Overflow == [prime |-> 0, magic |-> <<0, 0>>, shift |-> 32]

BH(gn, gd, dn, dd, ma) ==
    [ s_growth_factor_numerator |-> gn, s_growth_factor_denominator |-> gd,
      s_density_factor_numerator |-> dn, s_density_factor_denominator |-> dd,
      s_minimum_allocation |-> ma ]

\* Behavior policies a table is instantiated with: the default one (growth 3/2,
\* density 3/4, minimum 7), a sparse one that grows again at two entries, one
\* whose growth arithmetic wraps around 2^32 at three entries, and one whose
\* growth target at two entries exceeds the largest table prime.
DefaultBehavior == BH(3, 2, 3, 4, 7)
SparseBehavior == BH(3, 2, 2, 9, 7)
WrappingBehavior == BH(1431655766, 3, 1, 3, 1)
ExhaustingBehavior == BH(1073741824, 1, 2, 9, 7)

\* Further policies that meet the static assertions of the constructor: one
\* whose capacity of 9 holds a single entry (density 1/9), one that grows by
\* 5/4, one that grows by 15/8, and one with density 7/8.
StallingBehavior == BH(3, 2, 1, 9, 7)
SlowGrowthBehavior == BH(5, 4, 3, 4, 7)
FastGrowthBehavior == BH(15, 8, 3, 4, 7)
DenseBehavior == BH(3, 2, 7, 8, 7)

Behaviors ==
    {DefaultBehavior, SparseBehavior, WrappingBehavior, ExhaustingBehavior,
     StallingBehavior}

\* KeyFuncs::GetHashCode of the instantiation: key 3 has the hash code
\* 2^32 - 57; keys 1, 2, 3 share bucket 1 of a 9-bucket table and keys 1 and 3
\* share bucket 1 of a 23-bucket table; key 4 has the hash code 2^32 - 1.
GetHashCode(k) ==
    CASE k = 1 -> U32(1)
      [] k = 2 -> U32(10)
      [] k = 3 -> <<65535, 65479>>
      [] k = 4 -> <<65535, 65535>>
      [] OTHER -> U32(k)

\* KeyFuncs::Equals
Equals(a, b) == a = b

(***************************************************************************)
(* Magic-number division.                                                  *)
(***************************************************************************)
\* mutant of magicNumberDivide: the product is computed in 32 bits
magicNumberDivideNarrow(numerator, p) ==
    ShrU32(MulU32(numerator, p.magic), p.shift)

\* uint64_t product = (num * mag) >> (32 + p.shift); return (unsigned) product;
magicNumberDivide(numerator, p) ==
    LET product == MulU64(numerator, p.magic)
    IN  ShrU32(<<product[1], product[2]>>, p.shift)

magicNumberRem(numerator, p) ==
    LET div == magicNumberDivide(numerator, p)
    IN  SubU32(numerator, MulU32(div, U32(p.prime)))

(***************************************************************************)
(* The table object.  A table value t is the record of its members plus    *)
(* the allocator's memory: nodes (Node objects by address) and arrays      *)
(* (bucket arrays by address; <<>> is an address that is not allocated).   *)
(***************************************************************************)
VARIABLES Behavior, m_table, m_tableSizeInfo, m_tableCount, m_tableMax,
          nodes, arrays, fault, last,
          reader, writer, exclusive

tvars == <<m_table, m_tableSizeInfo, m_tableCount, m_tableMax, nodes, arrays>>
\* the threads that call into the table: a reader inside Lookup, a writer
\* inside Set, and whether the callers give every call exclusive access
threads == <<reader, writer, exclusive>>
vars == <<Behavior, m_table, m_tableSizeInfo, m_tableCount, m_tableMax,
          nodes, arrays, fault, last, reader, writer, exclusive>>

\* a reader that is not inside a call
IdleReader ==
    [pc |-> "idle", k |-> 0, index |-> 0, pN |-> NULL, present |-> FALSE, uaf |-> FALSE]

\* a writer that is not inside a call
IdleWriter ==
    [pc |-> "idle", k |-> 0, v |-> 0, newPrime |-> NoPrimeInfo,
     newTable |-> NULL, i |-> 0, pN |-> NULL, grew |-> FALSE]

This ==
    [ m_table |-> m_table, m_tableSizeInfo |-> m_tableSizeInfo,
      m_tableCount |-> m_tableCount, m_tableMax |-> m_tableMax,
      nodes |-> nodes, arrays |-> arrays ]

FreeNode == [m_key |-> 0, m_val |-> 0, m_next |-> NULL]

Node(k, v, next) == [m_key |-> k, m_val |-> v, m_next |-> next]

Min(S) == CHOOSE x \in S : \A y \in S : x <= y

FreeNodeAddrs(t) == {a \in NodeAddrs : t.nodes[a] = FreeNode}
FreeArrAddrs(t) == {a \in ArrAddrs : t.arrays[a] = <<>>}

\* m_table[index]
Bucket(t, index) == t.arrays[t.m_table][index + 1]

GetCount(t) == t.m_tableCount

GetIndexForKey(t, k) ==
    LET hash == GetHashCode(k)
    IN  ValU32(magicNumberRem(hash, t.m_tableSizeInfo))

\* mutant of WalkChain: compares only the head of the chain
WalkChainHeadOnly(nd, pN, k) ==
    IF pN # NULL /\ ~Equals(k, nd[pN].m_key) THEN NULL ELSE pN

\* while (pN != NULL && !KeyFuncs::Equals(k, pN->m_key)) pN = pN->m_next;
RECURSIVE WalkChain(_, _, _)
WalkChain(nd, pN, k) ==
    IF pN # NULL /\ ~Equals(k, nd[pN].m_key)
    THEN WalkChain(nd, nd[pN].m_next, k)
    ELSE pN

FindNode(t, k) ==
    IF t.m_tableSizeInfo.prime = 0
    THEN NULL
    ELSE LET index == GetIndexForKey(t, k)
             pN == Bucket(t, index)
         IN  IF pN = NULL THEN NULL ELSE WalkChain(t.nodes, pN, k)

\* Lookup: <<found, *pVal>>
Lookup(t, k) ==
    LET pN == FindNode(t, k)
    IN  IF pN # NULL THEN <<TRUE, t.nodes[pN].m_val>> ELSE <<FALSE, 0>>

\* LookupPointer: the address of the node whose m_val is returned, or NULL
LookupPointer(t, k) == FindNode(t, k)

(***************************************************************************)
(* Growth: NextPrime, Reallocate, Grow, CheckGrowth.  A growth step yields *)
(* [fail, grew, t]: fail is "" when it completed, else the place where     *)
(* Behavior::NoMemory() or the allocator ended the operation; grew tells   *)
(* whether Reallocate installed a new bucket array.                        *)
(***************************************************************************)
\* mutant of NextPrimeFrom: the comparison is primeInfo[i].prime > number
RECURSIVE NextPrimeStrict(_, _)
NextPrimeStrict(i, number) ==
    IF i > Len(primeInfo)
    THEN Overflow
    ELSE IF LtU32(number, U32(primeInfo[i].prime))
         THEN primeInfo[i]
         ELSE NextPrimeStrict(i + 1, number)

RECURSIVE NextPrimeFrom(_, _)
NextPrimeFrom(i, number) ==
    IF i > Len(primeInfo)
    THEN Overflow
    ELSE IF ~LtU32(U32(primeInfo[i].prime), number)
         THEN primeInfo[i]
         ELSE NextPrimeFrom(i + 1, number)

NextPrime(number) == NextPrimeFrom(1, number)

\* mutant of NewIndex: rehashes with the old m_tableSizeInfo
NewIndexOldPrime(key, newPrime) ==
    ValU32(magicNumberRem(GetHashCode(key), m_tableSizeInfo))

\* unsigned newIndex = magicNumberRem(KeyFuncs::GetHashCode(pN->m_key), newPrime);
NewIndex(key, newPrime) == ValU32(magicNumberRem(GetHashCode(key), newPrime))

\* mutant of Splice: the node is not linked in front of the chain it joins
SpliceDropsChain(st, pN, newIndex) ==
    [ nodes |-> [st.nodes EXCEPT ![pN].m_next = NULL],
      newTable |-> [st.newTable EXCEPT ![newIndex + 1] = pN] ]

\* pN->m_next = newTable[newIndex]; newTable[newIndex] = pN;
Splice(st, pN, newIndex) ==
    [ nodes |-> [st.nodes EXCEPT ![pN].m_next = st.newTable[newIndex + 1]],
      newTable |-> [st.newTable EXCEPT ![newIndex + 1] = pN] ]

\* the inner loop of Reallocate over one chain of the old array
RECURSIVE MoveChain(_, _, _)
MoveChain(st, pN, newPrime) ==
    IF pN = NULL
    THEN st
    ELSE LET pNext == st.nodes[pN].m_next
             newIndex == NewIndex(st.nodes[pN].m_key, newPrime)
         IN  MoveChain(Splice(st, pN, newIndex), pNext, newPrime)

\* the outer loop of Reallocate over the buckets i .. prime-1 of the old array
RECURSIVE MoveBuckets(_, _, _, _)
MoveBuckets(st, t, i, newPrime) ==
    IF i < t.m_tableSizeInfo.prime
    THEN MoveBuckets(MoveChain(st, Bucket(t, i), newPrime), t, i + 1, newPrime)
    ELSE st

\* m_tableMax = (unsigned) (newTableSize * density_numerator / density_denominator)
TableMax(B, newTableSize) ==
    ValU32(DivU32(MulU32(U32(newTableSize), U32(B.s_density_factor_numerator)),
                  B.s_density_factor_denominator))

\* mutant of FreeTable: the old bucket array is not freed
FreeTableKeeps(t, arr) == arr

\* if (m_table != NULL) m_alloc->Free(m_table);
FreeTable(t, arr) ==
    IF t.m_table # NULL THEN [arr EXCEPT ![t.m_table] = <<>>] ELSE arr

Reallocate(t, B, newTableSize, arrayOk) ==
    LET newPrime == NextPrime(newTableSize)
    IN  IF newPrime = Overflow
        THEN [fail |-> "NextPrime", grew |-> FALSE, t |-> t]
        ELSE IF ~arrayOk \/ FreeArrAddrs(t) = {}
        THEN [fail |-> "ArrayAlloc", grew |-> FALSE, t |-> t]
        ELSE LET newTable == Min(FreeArrAddrs(t))
                 st0 == [ nodes |-> t.nodes,
                          newTable |-> [i \in 1..newPrime.prime |-> NULL] ]
                 st == MoveBuckets(st0, t, 0, newPrime)
             IN  [ fail |-> "", grew |-> TRUE,
                   t |-> [ m_table |-> newTable,
                           m_tableSizeInfo |-> newPrime,
                           m_tableCount |-> t.m_tableCount,
                           m_tableMax |-> TableMax(B, newPrime.prime),
                           nodes |-> st.nodes,
                           arrays |-> [FreeTable(t, t.arrays) EXCEPT ![newTable] = st.newTable] ] ]

\* m_tableCount * growth_numerator / growth_denominator
\*              * density_denominator / density_numerator, in unsigned arithmetic
GrowSize(B, count) ==
    LET newSize == DivU32(MulU32(DivU32(MulU32(U32(count), U32(B.s_growth_factor_numerator)),
                                        B.s_growth_factor_denominator),
                                 U32(B.s_density_factor_denominator)),
                          B.s_density_factor_numerator)
    IN  IF LtU32(newSize, U32(B.s_minimum_allocation))
        THEN U32(B.s_minimum_allocation)
        ELSE newSize

Grow(t, B, arrayOk) ==
    LET newSize == GrowSize(B, t.m_tableCount)
    IN  IF LtU32(newSize, U32(t.m_tableCount))
        THEN [fail |-> "Grow", grew |-> FALSE, t |-> t]
        ELSE Reallocate(t, B, newSize, arrayOk)

\* whether CheckGrowth calls Grow
MustGrow(t) == t.m_tableCount = t.m_tableMax

CheckGrowth(t, B, arrayOk) ==
    IF MustGrow(t) THEN Grow(t, B, arrayOk) ELSE [fail |-> "", grew |-> FALSE, t |-> t]

(***************************************************************************)
(* Set, Remove, RemoveAll on table values.                                 *)
(***************************************************************************)
\* mutant of Overwrite: the assignment is missing
OverwriteLost(t, pN, v) == t

\* pN->m_val = v;
Overwrite(t, pN, v) == [t EXCEPT !.nodes[pN].m_val = v]

\* mutant of Insert: the node is linked into bucket 0
InsertFirstBucket(t, index, k, v, pNewNode) ==
    [t EXCEPT !.nodes[pNewNode] = Node(k, v, Bucket(t, 0)),
              !.arrays[t.m_table][1] = pNewNode,
              !.m_tableCount = t.m_tableCount + 1]

\* mutant of Insert: m_tableCount++ is missing
InsertNoCount(t, index, k, v, pNewNode) ==
    [t EXCEPT !.nodes[pNewNode] = Node(k, v, Bucket(t, index)),
              !.arrays[t.m_table][index + 1] = pNewNode]

\* Node* pNewNode = new (m_alloc) Node(k, v, m_table[index]);
\* m_table[index] = pNewNode; m_tableCount++;
Insert(t, index, k, v, pNewNode) ==
    [t EXCEPT !.nodes[pNewNode] = Node(k, v, Bucket(t, index)),
              !.arrays[t.m_table][index + 1] = pNewNode,
              !.m_tableCount = t.m_tableCount + 1]

\* mutant of SetBody: m_tableCount++ runs before the node is allocated
SetBodyCountsFirst(t, k, v, nodeOk, grew) ==
    LET index == GetIndexForKey(t, k)
        pN == WalkChain(t.nodes, Bucket(t, index), k)
    IN  IF pN # NULL
        THEN [ret |-> "true", fail |-> "", grew |-> grew, t |-> Overwrite(t, pN, v)]
        ELSE IF ~nodeOk \/ FreeNodeAddrs(t) = {}
        THEN [ret |-> "NoMemory", fail |-> "NodeAlloc", grew |-> grew,
              t |-> [t EXCEPT !.m_tableCount = t.m_tableCount + 1]]
        ELSE [ret |-> "false", fail |-> "", grew |-> grew,
              t |-> Insert(t, index, k, v, Min(FreeNodeAddrs(t)))]

\* Set after CheckGrowth: [ret, fail, grew, t]
SetBody(t, k, v, nodeOk, grew) ==
    LET index == GetIndexForKey(t, k)
        pN == WalkChain(t.nodes, Bucket(t, index), k)
    IN  IF pN # NULL
        THEN [ret |-> "true", fail |-> "", grew |-> grew, t |-> Overwrite(t, pN, v)]
        ELSE IF ~nodeOk \/ FreeNodeAddrs(t) = {}
        THEN [ret |-> "NoMemory", fail |-> "NodeAlloc", grew |-> grew, t |-> t]
        ELSE [ret |-> "false", fail |-> "", grew |-> grew,
              t |-> Insert(t, index, k, v, Min(FreeNodeAddrs(t)))]

\* mutant of SetOp: the growth check runs only when the key is not found
SetOpLateCheck(t, B, k, v, arrayOk, nodeOk) ==
    IF FindNode(t, k) # NULL
    THEN SetBody(t, k, v, nodeOk, FALSE)
    ELSE LET g == CheckGrowth(t, B, arrayOk)
         IN  IF g.fail # ""
             THEN [ret |-> "NoMemory", fail |-> g.fail, grew |-> FALSE, t |-> g.t]
             ELSE SetBody(g.t, k, v, nodeOk, g.grew)

SetOp(t, B, k, v, arrayOk, nodeOk) ==
    LET g == CheckGrowth(t, B, arrayOk)
    IN  IF g.fail # ""
        THEN [ret |-> "NoMemory", fail |-> g.fail, grew |-> FALSE, t |-> g.t]
        ELSE SetBody(g.t, k, v, nodeOk, g.grew)

\* mutant of WalkTrailing: ppN stays at the bucket while pN advances
WalkNotTrailing(nd, ppN, pN, k) == <<ppN, WalkChain(nd, pN, k)>>

\* the trailing pointer ppN of Remove: <<"bucket", index>> or <<"next", node>>
RECURSIVE WalkTrailing(_, _, _, _)
WalkTrailing(nd, ppN, pN, k) ==
    IF pN # NULL /\ ~Equals(k, nd[pN].m_key)
    THEN WalkTrailing(nd, <<"next", pN>>, nd[pN].m_next, k)
    ELSE <<ppN, pN>>

\* mutant of Unlink: m_tableCount-- is missing
UnlinkNoCount(t, ppN, pN) ==
    LET next == t.nodes[pN].m_next
        t1 == IF ppN[1] = "bucket"
              THEN [t EXCEPT !.arrays[t.m_table][ppN[2] + 1] = next]
              ELSE [t EXCEPT !.nodes[ppN[2]].m_next = next]
    IN  [t1 EXCEPT !.nodes[pN] = FreeNode]

\* *ppN = pN->m_next; m_tableCount--; Node::operator delete(pN, m_alloc);
Unlink(t, ppN, pN) ==
    LET next == t.nodes[pN].m_next
        t1 == IF ppN[1] = "bucket"
              THEN [t EXCEPT !.arrays[t.m_table][ppN[2] + 1] = next]
              ELSE [t EXCEPT !.nodes[ppN[2]].m_next = next]
    IN  [t1 EXCEPT !.m_tableCount = t.m_tableCount - 1,
                   !.nodes[pN] = FreeNode]

\* mutant of RemoveOp: removing the last entry releases the bucket array
RemoveOpShrinks(t, k) ==
    LET index == GetIndexForKey(t, k)
        w == WalkTrailing(t.nodes, <<"bucket", index>>, Bucket(t, index), k)
        u == Unlink(t, w[1], w[2])
    IN  IF w[2] # NULL
        THEN [ret |-> "true",
              t |-> IF u.m_tableCount = 0
                    THEN [u EXCEPT !.m_table = NULL, !.m_tableSizeInfo = NoPrimeInfo,
                                   !.m_tableMax = 0, !.arrays = FreeTable(t, t.arrays)]
                    ELSE u]
        ELSE [ret |-> "false", t |-> t]

\* Remove on a table that has a bucket array: [ret, t]
RemoveOp(t, k) ==
    LET index == GetIndexForKey(t, k)
        w == WalkTrailing(t.nodes, <<"bucket", index>>, Bucket(t, index), k)
    IN  IF w[2] # NULL
        THEN [ret |-> "true", t |-> Unlink(t, w[1], w[2])]
        ELSE [ret |-> "false", t |-> t]

\* the nodes of the chain starting at pN
RECURSIVE ChainNodes(_, _)
ChainNodes(nd, pN) ==
    IF pN = NULL THEN {} ELSE {pN} \cup ChainNodes(nd, nd[pN].m_next)

\* the nodes RemoveAll deletes: every node of every bucket
AllChainNodes(t) ==
    UNION {ChainNodes(t.nodes, Bucket(t, i)) : i \in 0..(t.m_tableSizeInfo.prime - 1)}

\* mutant of RemoveAllOp: m_tableMax is not reset
RemoveAllKeepsMax(t) ==
    [ m_table |-> NULL,
      m_tableSizeInfo |-> NoPrimeInfo,
      m_tableCount |-> 0,
      m_tableMax |-> t.m_tableMax,
      nodes |-> [a \in NodeAddrs |-> FreeNode],
      arrays |-> FreeTable(t, t.arrays) ]

RemoveAllOp(t) ==
    LET dead == AllChainNodes(t)
    IN  [ m_table |-> NULL,
          m_tableSizeInfo |-> NoPrimeInfo,
          m_tableCount |-> 0,
          m_tableMax |-> 0,
          nodes |-> [a \in NodeAddrs |-> IF a \in dead THEN FreeNode ELSE t.nodes[a]],
          arrays |-> FreeTable(t, t.arrays) ]

(***************************************************************************)
(* The state machine: a table of one instantiation and its callers.        *)
(* last records the most recent call: its arguments, its result (ret is    *)
(* "true", "false", "void", "NoMemory" or "fault"), whether the call       *)
(* completed a Grow, where it failed, and GetCount() at its entry.         *)
(***************************************************************************)
Call(op, k, v, ret, grew, fail, n0) ==
    [op |-> op, k |-> k, v |-> v, ret |-> ret, grew |-> grew, fail |-> fail, n0 |-> n0]

Commit(t) ==
    /\ m_table' = t.m_table
    /\ m_tableSizeInfo' = t.m_tableSizeInfo
    /\ m_tableCount' = t.m_tableCount
    /\ m_tableMax' = t.m_tableMax
    /\ nodes' = t.nodes
    /\ arrays' = t.arrays

\* SimplerHashTable(IAllocator*)
Init ==
    /\ Behavior \in Behaviors
    /\ m_table = NULL
    /\ m_tableSizeInfo = NoPrimeInfo
    /\ m_tableCount = 0
    /\ m_tableMax = 0
    /\ nodes = [a \in NodeAddrs |-> FreeNode]
    /\ arrays = [a \in ArrAddrs |-> <<>>]
    /\ fault = FALSE
    /\ last = Call("new", 0, 0, "void", FALSE, "", 0)
    /\ reader = IdleReader
    /\ writer = IdleWriter
    /\ exclusive = TRUE

Set ==
    \E k \in Keys, v \in Vals, arrayOk \in BOOLEAN, nodeOk \in BOOLEAN :
        \E r \in {SetOp(This, Behavior, k, v, arrayOk, nodeOk)} :
            /\ ~fault
            /\ Commit(r.t)
            /\ last' = Call("Set", k, v, r.ret, r.grew, r.fail, m_tableCount)
            /\ UNCHANGED <<Behavior, fault, threads>>

\* Remove has no guard for a table without a bucket array: it computes
\* hash % 0 in the assertion of magicNumberRem and reads m_table[index] through
\* the NULL m_table.  The outcomes are a crash, or a read that happens to yield
\* NULL, after which Remove returns false.
Remove ==
    \E k \in Keys, crash \in BOOLEAN :
        /\ ~fault
        /\ IF m_tableSizeInfo.prime = 0
           THEN /\ fault' = crash
                /\ last' = Call("Remove", k, 0, IF crash THEN "fault" ELSE "false",
                                 FALSE, "", m_tableCount)
                /\ UNCHANGED tvars
           ELSE \E r \in {RemoveOp(This, k)} :
                    /\ Commit(r.t)
                    /\ last' = Call("Remove", k, 0, r.ret, FALSE, "", m_tableCount)
                    /\ UNCHANGED fault
        /\ UNCHANGED <<Behavior, threads>>

RemoveAll ==
    /\ ~fault
    /\ \E t \in {RemoveAllOp(This)} : Commit(t)
    /\ last' = Call("RemoveAll", 0, 0, "void", FALSE, "", m_tableCount)
    /\ UNCHANGED <<Behavior, fault, threads>>

Next == Set \/ Remove \/ RemoveAll

Spec == Init /\ [][Next]_vars
(***************************************************************************)
(* What the claims speak about.                                            *)
(***************************************************************************)
Present(t, k) == Lookup(t, k)[1]

PresentKeys(t) == {k \in Keys : Present(t, k)}

\* the nodes of the chain starting at pN, head first
RECURSIVE ChainSeq(_, _)
ChainSeq(nd, pN) ==
    IF pN = NULL THEN <<>> ELSE <<pN>> \o ChainSeq(nd, nd[pN].m_next)

\* the nodes of the chains of buckets i .. prime-1, in bucket order
RECURSIVE TableSeq(_, _)
TableSeq(t, i) ==
    IF i < t.m_tableSizeInfo.prime
    THEN ChainSeq(t.nodes, Bucket(t, i)) \o TableSeq(t, i + 1)
    ELSE <<>>

LiveNodes(t) == {a \in NodeAddrs : t.nodes[a] # FreeNode}

GrowFailures == {"Grow", "NextPrime", "ArrayAlloc"}

Returned == {"true", "false"}

\* C1: GetCount() equals the number of distinct keys Lookup finds, and no key
\* is stored in more than one node over all bucket chains.
C1_CountIsDistinctKeys ==
    LET seq == TableSeq(This, 0)
    IN  /\ m_tableCount = Cardinality(PresentKeys(This))
        /\ \A i, j \in DOMAIN seq :
              i # j => nodes[seq[i]].m_key # nodes[seq[j]].m_key

\* a Remove has taken one of three stored keys out
C1_Witness ==
    /\ last.op = "Remove" /\ last.ret = "true" /\ last.n0 = 3
    /\ m_tableCount = 2 /\ Cardinality(PresentKeys(This)) = 2

\* C2: right after a Set(k, v) that returned, Lookup(k) finds k with value v,
\* whether or not that Set grew the table.
C2_SetThenLookup ==
    (last.op = "Set" /\ last.ret \in Returned)
        => Lookup(This, last.k) = <<TRUE, last.v>>

\* a Set that relinked two stored keys into a 23-bucket array and then
\* inserted a third one
C2_Witness ==
    /\ last.op = "Set" /\ last.ret = "false" /\ last.grew /\ last.n0 = 2
    /\ m_tableSizeInfo.prime = 23
    /\ Lookup(This, last.k) = <<TRUE, last.v>>

\* C3: Set returns false exactly when the key was absent (one node is added,
\* count grows by one) and true exactly when it was present (the value of the
\* same node is overwritten, no node is added, count stays).
C3_SetResult ==
    [][ (last'.op = "Set" /\ last'.ret \in Returned) =>
          /\ (last'.ret = "false") <=> ~Present(This, last'.k)
          /\ last'.ret = "false" =>
                /\ m_tableCount' = m_tableCount + 1
                /\ LiveNodes(This) \subseteq LiveNodes(This')
                /\ Cardinality(LiveNodes(This')) = Cardinality(LiveNodes(This)) + 1
          /\ last'.ret = "true" =>
                /\ m_tableCount' = m_tableCount
                /\ LiveNodes(This') = LiveNodes(This)
                /\ FindNode(This', last'.k) = FindNode(This, last'.k)
          /\ Lookup(This', last'.k) = <<TRUE, last'.v>> ]_vars

\* Set(k, 1) then Set(k, 2) on the empty table: the second returned true,
\* Lookup yields 2 and count is 1
C3_Witness ==
    /\ last.op = "Set" /\ last.ret = "true" /\ last.v = 2 /\ last.n0 = 1
    /\ m_tableCount = 1 /\ Lookup(This, last.k) = <<TRUE, 2>>

\* C4: Remove of a present key returns true, decrements count by one and
\* leaves the key absent; an absent key becomes present only by a Set of it.
C4_RemovePresent ==
    [][ /\ (last'.op = "Remove" /\ Present(This, last'.k)) =>
              /\ last'.ret = "true"
              /\ m_tableCount' = m_tableCount - 1
              /\ ~Present(This', last'.k)
        /\ \A k \in Keys :
              (~Present(This, k) /\ Present(This', k)) =>
                  (last'.op = "Set" /\ last'.k = k) ]_vars

\* a Remove took the key out of a table that keeps other keys
C4_Witness ==
    /\ last.op = "Remove" /\ last.ret = "true" /\ m_tableCount >= 1
    /\ ~Present(This, last.k)

\* C5: the Grow a Set runs when count == max preserves the mapping: every key
\* has the same Lookup result right after the Grow as before it, and after the
\* whole Set every key other than the one set has the Lookup result it had.
C5_GrowPreservesMappings ==
    [][ (last'.op = "Set" /\ last'.grew) =>
          /\ \A k \in Keys :
                Lookup(CheckGrowth(This, Behavior, TRUE).t, k) = Lookup(This, k)
          /\ \A k \in Keys \ {last'.k} :
                Lookup(This', k) = Lookup(This, k) ]_vars

\* a Grow from 9 to 23 buckets with two keys stored
C5_Witness ==
    /\ last.op = "Set" /\ last.grew /\ last.n0 = 2
    /\ m_tableSizeInfo.prime = 23 /\ m_tableCount >= 2

\* the table as the constructor leaves it
EmptyTable ==
    [ m_table |-> NULL, m_tableSizeInfo |-> NoPrimeInfo,
      m_tableCount |-> 0, m_tableMax |-> 0,
      nodes |-> [a \in NodeAddrs |-> FreeNode],
      arrays |-> [a \in ArrAddrs |-> <<>>] ]

\* C6: after RemoveAll every Lookup is absent, count, max and prime are 0 and
\* there is no bucket array: the table is in its initial state, and the next
\* Set that returns grows it from scratch to NextPrime(minimum_allocation).
C6_RemoveAllResets ==
    [][ /\ last'.op = "RemoveAll" =>
              /\ \A k \in Keys : Lookup(This', k) = <<FALSE, 0>>
              /\ m_tableCount' = 0 /\ m_tableMax' = 0
              /\ m_tableSizeInfo'.prime = 0 /\ m_table' = NULL
              /\ This' = EmptyTable
        /\ (last.op = "RemoveAll" /\ last'.op = "Set" /\ last'.ret \in Returned) =>
              /\ last'.grew
              /\ m_table' # NULL
              /\ m_tableSizeInfo' = NextPrime(U32(Behavior.s_minimum_allocation)) ]_vars

\* RemoveAll has emptied a table that held three keys
C6_Witness ==
    /\ last.op = "RemoveAll" /\ last.n0 = 3
    /\ m_table = NULL /\ m_tableCount = 0

\* C7: Remove of an absent key returns false without any failure and leaves
\* the table unchanged, in every state, the never-grown one included.
C7_RemoveAbsentIsNormal ==
    [][ (last'.op = "Remove" /\ ~Present(This, last'.k)) =>
          (last'.ret = "false" /\ ~fault' /\ UNCHANGED tvars) ]_vars

\* C8, as claimed: a Set that ends in NoMemory leaves the table exactly as it
\* was before the call.
C8_FailedSetLeavesTable ==
    [][ (last'.op = "Set" /\ last'.ret = "NoMemory") => UNCHANGED tvars ]_vars

\* C8, amended: a Set that fails in Grow, in NextPrime or in the allocation of
\* the bucket array leaves the table exactly as it was; a Set that fails in the
\* allocation of the node leaves count and every Lookup result as they were,
\* and leaves the table exactly as it was unless count == max held at entry,
\* in which case the completed Grow stays in place: a new bucket array of the
\* capacity Grow selected for the count at entry.
C8_FailedSetAmended ==
    [][ (last'.op = "Set" /\ last'.ret = "NoMemory") =>
          /\ last'.fail \in GrowFailures \cup {"NodeAlloc"}
          /\ last'.fail \in GrowFailures => UNCHANGED tvars
          /\ last'.fail = "NodeAlloc" =>
                /\ m_tableCount' = m_tableCount
                /\ \A k \in Keys : Lookup(This', k) = Lookup(This, k)
                /\ LiveNodes(This') = LiveNodes(This)
                /\ m_tableCount # m_tableMax => UNCHANGED tvars
                /\ m_tableCount = m_tableMax =>
                      /\ last'.grew
                      /\ m_table' # m_table
                      /\ m_tableSizeInfo' = NextPrime(GrowSize(Behavior, m_tableCount)) ]_vars

\* the node allocation failed after the Set had grown a table of two keys
C8_Witness ==
    /\ last.op = "Set" /\ last.ret = "NoMemory" /\ last.fail = "NodeAlloc"
    /\ last.grew /\ last.n0 = 2 /\ m_tableSizeInfo.prime = 23 /\ m_tableCount = 2

\* C9: a Set runs the growth check once, at entry: it grows (or fails in the
\* Grow) exactly when count == max at entry, also when the key exists, and the
\* new capacity is the one Grow computes from the count at entry.
C9_GrowthCheckedAtEntry ==
    [][ last'.op = "Set" =>
          /\ (m_tableCount = m_tableMax) <=> (last'.grew \/ last'.fail \in GrowFailures)
          /\ last'.grew =>
                /\ m_tableSizeInfo' = NextPrime(GrowSize(Behavior, m_tableCount))
                /\ m_table' # m_table
          /\ ~last'.grew =>
                (m_tableSizeInfo' = m_tableSizeInfo /\ m_table' = m_table) ]_vars

\* a Set of a key that was already stored grew the table and added no node
C9_Witness ==
    /\ last.op = "Set" /\ last.ret = "true" /\ last.grew
    /\ last.n0 = 2 /\ m_tableCount = 2 /\ m_tableSizeInfo.prime = 23

MaxU32 == <<65535, 65535>>

\* the arguments of NextPrime: around every table prime, and the ends of unsigned
NextPrimeArgs ==
    {U32(primeInfo[i].prime + d) : i \in DOMAIN primeInfo, d \in {-1, 0, 1}}
        \cup {U32(0), U32(1), <<32768, 0>>, MaxU32}

\* the numerators of magicNumberRem for the table entry i
Numerators(i) ==
    LET p == primeInfo[i].prime
    IN  {U32(0), U32(1), U32(p - 1), U32(p), U32(p + 1), U32(2 * p - 1),
         U32(65535), U32(65536), U32(2147483647), <<32768, 0>>,
         SubU32(MaxU32, U32(p)), SubU32(MaxU32, U32(1)), MaxU32}

FnInit == Init /\ Behavior = DefaultBehavior

CallNextPrime ==
    \E number \in NextPrimeArgs :
        \E r \in {NextPrime(number)} :
            /\ last' = Call("NextPrime", number, 0, r, FALSE,
                             IF r = Overflow THEN "NextPrime" ELSE "", 0)
            /\ UNCHANGED <<Behavior, tvars, fault, threads>>

CallMagicNumberRem ==
    \E i \in DOMAIN primeInfo :
        \E numerator \in Numerators(i) :
            /\ last' = Call("magicNumberRem", numerator, i,
                             <<magicNumberDivide(numerator, primeInfo[i]),
                               magicNumberRem(numerator, primeInfo[i])>>,
                             FALSE, "", 0)
            /\ UNCHANGED <<Behavior, tvars, fault, threads>>

FnNext == CallNextPrime \/ CallMagicNumberRem

FnSpec == FnInit /\ [][FnNext]_vars

\* whether the 32-bit value n is at most the table prime p
AtMost(n, p) == n[1] < 32768 /\ ValU32(n) <= p

\* C11: NextPrime(n) is the first entry of the ascending table whose prime is
\* >= n; when there is none it ends in Behavior::NoMemory() and yields no entry.
C11_NextPrimeIsFirstAtLeast ==
    last.op = "NextPrime" =>
        LET fits == {i \in DOMAIN primeInfo : AtMost(last.k, primeInfo[i].prime)}
        IN  /\ \A i, j \in DOMAIN primeInfo :
                  i < j => primeInfo[i].prime < primeInfo[j].prime
            /\ fits # {} => (last.ret = primeInfo[Min(fits)] /\ last.fail = "")
            /\ fits = {} =>
                  /\ last.fail = "NextPrime"
                  /\ \A i \in DOMAIN primeInfo : last.ret # primeInfo[i]

\* NextPrime(24) is the entry of 59, the one after 23
C11_Witness ==
    /\ last.op = "NextPrime" /\ last.k = U32(24)
    /\ last.ret = primeInfo[3] /\ last.ret.prime = 59

\* n / p and n % p for a 32-bit n and 0 < p < 2^30, through n = 2 * (n / 2) + b
RefDivRem(n, p) ==
    LET half == n[1] * 32768 + (n[2] \div 2)
        rest == 2 * (half % p) + (n[2] % 2)
    IN  IF rest >= p
        THEN <<2 * (half \div p) + 1, rest - p>>
        ELSE <<2 * (half \div p), rest>>

\* C13: for every table entry p and every numerator n, magicNumberDivide(n, p)
\* is floor(n / p.prime) and magicNumberRem(n, p) is n mod p.prime, a bucket
\* index in [0, p.prime).
C13_MagicIsExact ==
    last.op = "magicNumberRem" =>
        LET p == primeInfo[last.v].prime
            ref == RefDivRem(last.k, p)
        IN  /\ last.ret[1] = U32(ref[1])
            /\ last.ret[2] = U32(ref[2])
            /\ last.ret[2][1] < 32768
            /\ ValU32(last.ret[2]) < p

\* 2^32 - 1 reduced by the largest table prime: quotient 5, remainder 629740190
C13_Witness ==
    /\ last.op = "magicNumberRem" /\ last.k = MaxU32 /\ last.v = 27
    /\ last.ret = <<U32(5), U32(629740190)>>

(***************************************************************************)
(* The sizing of a table over its lifetime: capacity, count and max only.  *)
(* The chains and the bucket array are left out (m_table, nodes and arrays *)
(* stay as constructed), so that a table can be followed up to the largest *)
(* table prime.  A run of Sets of new keys below max, or of Removes above  *)
(* it, is one step, since none of these calls enters Grow.                 *)
(***************************************************************************)
SizingBehaviors ==
    {DefaultBehavior, SparseBehavior, StallingBehavior, SlowGrowthBehavior,
     FastGrowthBehavior, DenseBehavior}

\* Grow and Reallocate without the relinking: [fail, sizeInfo, max]
Resize(B, count) ==
    LET newSize == GrowSize(B, count)
        newPrime == NextPrime(newSize)
    IN  IF LtU32(newSize, U32(count))
        THEN [fail |-> "Grow", sizeInfo |-> NoPrimeInfo, max |-> 0]
        ELSE IF newPrime = Overflow
        THEN [fail |-> "NextPrime", sizeInfo |-> NoPrimeInfo, max |-> 0]
        ELSE [fail |-> "", sizeInfo |-> newPrime, max |-> TableMax(B, newPrime.prime)]

SizingInit ==
    /\ Behavior \in SizingBehaviors
    /\ m_table = NULL
    /\ m_tableSizeInfo = NoPrimeInfo
    /\ m_tableCount = 0
    /\ m_tableMax = 0
    /\ nodes = [a \in NodeAddrs |-> FreeNode]
    /\ arrays = [a \in ArrAddrs |-> <<>>]
    /\ fault = FALSE
    /\ last = Call("new", 0, 0, "void", FALSE, "", 0)
    /\ reader = IdleReader
    /\ writer = IdleWriter
    /\ exclusive = TRUE

\* Sets of new keys while count != max: CheckGrowth does nothing, count grows
SetsBelowMax ==
    /\ m_tableCount < m_tableMax
    /\ m_tableCount' = m_tableMax
    /\ last' = Call("Set", 0, 0, "false", FALSE, "", m_tableMax - 1)
    /\ UNCHANGED <<Behavior, m_table, m_tableSizeInfo, m_tableMax, nodes, arrays, fault, threads>>

\* a Set of a new key when count == max: Grow, then the insertion
SetAtMax ==
    /\ m_tableCount = m_tableMax
    /\ \E r \in {Resize(Behavior, m_tableCount)} :
          IF r.fail # ""
          THEN /\ last' = Call("Set", 0, 0, "NoMemory", FALSE, r.fail, m_tableCount)
               /\ UNCHANGED <<m_tableSizeInfo, m_tableCount, m_tableMax>>
          ELSE /\ m_tableSizeInfo' = r.sizeInfo
               /\ m_tableMax' = r.max
               /\ m_tableCount' = m_tableCount + 1
               /\ last' = Call("Set", 0, 0, "false", TRUE, "", m_tableCount)
    /\ UNCHANGED <<Behavior, m_table, nodes, arrays, fault, threads>>

\* Removes of present keys while count > max: count falls, nothing else changes
RemovesDownToMax ==
    /\ m_tableCount > m_tableMax
    /\ m_tableCount' = m_tableMax
    /\ last' = Call("Remove", 0, 0, "true", FALSE, "", m_tableMax + 1)
    /\ UNCHANGED <<Behavior, m_table, m_tableSizeInfo, m_tableMax, nodes, arrays, fault, threads>>

SizingNext == SetsBelowMax \/ SetAtMax \/ RemovesDownToMax

SizingSpec == SizingInit /\ [][SizingNext]_vars

(***************************************************************************)
(* Exact arithmetic on naturals written as base-2^16 digits, most          *)
(* significant first: what the expressions of Grow and Reallocate would    *)
(* yield without a word size.  Multipliers and divisors are below 2^15.    *)
(***************************************************************************)
RECURSIVE TimesFrom(_, _, _)
TimesFrom(ws, m, carry) ==
    IF ws = <<>>
    THEN <<carry>>
    ELSE LET t == ws[Len(ws)] * m + carry
         IN  TimesFrom(SubSeq(ws, 1, Len(ws) - 1), m, t \div W16) \o <<t % W16>>

Times(ws, m) == TimesFrom(ws, m, 0)

RECURSIVE OverFrom(_, _, _)
OverFrom(ws, d, rem) ==
    IF ws = <<>>
    THEN <<>>
    ELSE LET t == rem * W16 + Head(ws)
         IN  <<t \div d>> \o OverFrom(Tail(ws), d, t % d)

Over(ws, d) == OverFrom(ws, d, 0)

\* whether the digits denote a value below 2^32, and that value as <<hi, lo>>
FitsU32(ws) == \A i \in 1..(Len(ws) - 2) : ws[i] = 0
Low32(ws) == <<ws[Len(ws) - 1], ws[Len(ws)]>>

\* floor(floor(count * growth_numerator / growth_denominator)
\*       * density_denominator / density_numerator)
ExactGrowSize(B, count) ==
    Over(Times(Over(Times(U32(count), B.s_growth_factor_numerator),
                    B.s_growth_factor_denominator),
               B.s_density_factor_denominator),
         B.s_density_factor_numerator)

\* the table entries that can hold max(minimum_allocation, ExactGrowSize)
ExactTargets(B, count) ==
    LET size == ExactGrowSize(B, count)
        target == IF LtU32(Low32(size), U32(B.s_minimum_allocation))
                  THEN U32(B.s_minimum_allocation)
                  ELSE Low32(size)
    IN  IF FitsU32(size)
        THEN {i \in DOMAIN primeInfo : AtMost(target, primeInfo[i].prime)}
        ELSE {}

\* floor(prime * density_numerator / density_denominator)
ExactMax(B, prime) ==
    Over(Times(U32(prime), B.s_density_factor_numerator), B.s_density_factor_denominator)

\* C12: a Grow at count c sets the capacity to NextPrime(max(minimum_allocation,
\* floor(floor(c * growth) / density))), reporting overflow when no table prime
\* is that large; the first Set allocates NextPrime(minimum_allocation), and
\* with the default policy every new capacity is larger than the one before.
C12_GrowCapacity ==
    [][ (last'.op = "Set" /\ m_tableCount = m_tableMax) =>
          LET fits == ExactTargets(Behavior, m_tableCount)
          IN  /\ fits # {} =>
                    (last'.grew /\ m_tableSizeInfo' = primeInfo[Min(fits)])
              /\ fits = {} => (~last'.grew /\ last'.ret = "NoMemory")
              /\ m_tableSizeInfo.prime = 0 =>
                    m_tableSizeInfo' = NextPrime(U32(Behavior.s_minimum_allocation))
              /\ Behavior = DefaultBehavior /\ last'.grew =>
                    m_tableSizeInfo'.prime > m_tableSizeInfo.prime ]_vars

\* C15: either the table has no capacity (prime, count and max are 0 and there
\* is no bucket array), or size_info is a table entry, the bucket array has
\* prime slots and max is floor(prime * density).  (The sizing specification
\* keeps no bucket array; there the clause on its length is void.)
C15_CapacityShape ==
    \/ /\ m_tableSizeInfo.prime = 0 /\ m_table = NULL
       /\ m_tableCount = 0 /\ m_tableMax = 0
    \/ /\ \E i \in DOMAIN primeInfo : m_tableSizeInfo = primeInfo[i]
       /\ m_table # NULL => Len(arrays[m_table]) = m_tableSizeInfo.prime
       /\ <<0>> \o U32(m_tableMax) = ExactMax(Behavior, m_tableSizeInfo.prime)

\* C14: count never exceeds max.
C14_CountWithinMax == m_tableCount <= m_tableMax

(***************************************************************************)
(* Chains, frames and ownership.                                           *)
(***************************************************************************)
Buckets(t) == 0..(t.m_tableSizeInfo.prime - 1)

\* the elements of a sequence
Elems(seq) == {seq[i] : i \in DOMAIN seq}

\* a sequence without the element a
RECURSIVE Without(_, _)
Without(seq, a) ==
    IF seq = <<>>
    THEN <<>>
    ELSE IF Head(seq) = a
         THEN Without(Tail(seq), a)
         ELSE <<Head(seq)>> \o Without(Tail(seq), a)

AllocatedArrays(t) == {a \in ArrAddrs : t.arrays[a] # <<>>}

\* C16: every node linked in the chain of bucket i has hash(key) mod prime = i,
\* which is the index GetIndexForKey computes, so that FindNode, which looks
\* into that one bucket, finds every node by its key.
C16_NodesInTheirBucket ==
    \A i \in Buckets(This) :
        \A a \in Elems(ChainSeq(nodes, Bucket(This, i))) :
            /\ RefDivRem(GetHashCode(nodes[a].m_key), m_tableSizeInfo.prime)[2] = i
            /\ GetIndexForKey(This, nodes[a].m_key) = i
            /\ FindNode(This, nodes[a].m_key) = a

\* three keys in a 23-bucket table: two share bucket 1, one is in bucket 10
C16_Witness ==
    /\ m_tableSizeInfo.prime = 23 /\ m_tableCount = 3
    /\ Len(ChainSeq(nodes, Bucket(This, 1))) = 2
    /\ Len(ChainSeq(nodes, Bucket(This, 10))) = 1

\* C17: the Grow of a Set allocates and frees no node: the same nodes are
\* chained before and after it, with the same keys and values, count is the
\* same, and LookupPointer yields the same storage for every key; after the
\* whole Set the storage of every key that was present is still the same.
C17_GrowKeepsNodes ==
    [][ (last'.op = "Set" /\ last'.grew) =>
          LET g == CheckGrowth(This, Behavior, TRUE).t
          IN  /\ Elems(TableSeq(g, 0)) = Elems(TableSeq(This, 0))
              /\ LiveNodes(g) = LiveNodes(This)
              /\ g.m_tableCount = m_tableCount
              /\ \A a \in NodeAddrs :
                    /\ g.nodes[a].m_key = nodes[a].m_key
                    /\ g.nodes[a].m_val = nodes[a].m_val
              /\ \A k \in Keys : LookupPointer(g, k) = LookupPointer(This, k)
              /\ LiveNodes(This) \subseteq Elems(TableSeq(This', 0))
              /\ \A k \in PresentKeys(This) :
                    LookupPointer(This', k) = LookupPointer(This, k) ]_vars

\* a Set relinked the nodes 1 and 2 into 23 buckets and added node 3
C17_Witness ==
    /\ last.op = "Set" /\ last.grew /\ last.ret = "false" /\ last.n0 = 2
    /\ LiveNodes(This) = {1, 2, 3}
    /\ Elems(TableSeq(This, 0)) = {1, 2, 3}

\* C18: Remove of a present key frees the one node that holds it and changes
\* nothing else: the other keys keep their nodes and values, the chain of the
\* key keeps the order of its other nodes, the other chains, the bucket
\* array, size_info and max are unchanged.
C18_RemoveFrame ==
    [][ (last'.op = "Remove" /\ Present(This, last'.k)) =>
          LET a == FindNode(This, last'.k)
              index == GetIndexForKey(This, last'.k)
          IN  /\ LiveNodes(This') = LiveNodes(This) \ {a}
              /\ \A b \in LiveNodes(This') :
                    /\ nodes'[b].m_key = nodes[b].m_key
                    /\ nodes'[b].m_val = nodes[b].m_val
              /\ \A k \in Keys \ {last'.k} :
                    /\ FindNode(This', k) = FindNode(This, k)
                    /\ Lookup(This', k) = Lookup(This, k)
              /\ \A i \in Buckets(This) :
                    ChainSeq(nodes', Bucket(This', i)) =
                        IF i = index
                        THEN Without(ChainSeq(nodes, Bucket(This, i)), a)
                        ELSE ChainSeq(nodes, Bucket(This, i))
              /\ m_table' = m_table /\ m_tableSizeInfo' = m_tableSizeInfo
              /\ m_tableMax' = m_tableMax
              /\ AllocatedArrays(This') = AllocatedArrays(This) ]_vars

\* Remove(2) took node 2 out of the middle of the chain 3, 2, 1 of bucket 1
C18_Witness ==
    /\ last.op = "Remove" /\ last.k = 2 /\ last.ret = "true" /\ last.n0 = 3
    /\ m_tableSizeInfo.prime = 9
    /\ ChainSeq(nodes, Bucket(This, 1)) = <<3, 1>>
    /\ nodes[2] = FreeNode

\* the allocated nodes are the chained ones, each in one place of one chain,
\* and the only allocated bucket array is m_table
OwnsHeap(t) ==
    LET seq == TableSeq(t, 0)
    IN  /\ LiveNodes(t) = Elems(seq)
        /\ \A i, j \in DOMAIN seq : i # j => seq[i] # seq[j]
        /\ AllocatedArrays(t) = IF t.m_table = NULL THEN {} ELSE {t.m_table}
        /\ t.m_table # NULL => Len(t.arrays[t.m_table]) = t.m_tableSizeInfo.prime

\* C19: the table owns its memory without leak or double free: in every state
\* the allocated nodes are exactly the chained ones, each reachable through
\* one chain, and the only allocated array is the current one; a node is
\* freed only by Remove of its key or by RemoveAll, an array only by a Grow or
\* by RemoveAll, and after RemoveAll nothing remains allocated.
C19_OwnsMemory ==
    [][ /\ OwnsHeap(This) /\ OwnsHeap(This')
        /\ \A a \in LiveNodes(This) \ LiveNodes(This') :
              \/ last'.op = "Remove" /\ nodes[a].m_key = last'.k
              \/ last'.op = "RemoveAll"
        /\ \A a \in AllocatedArrays(This) \ AllocatedArrays(This') :
              /\ a = m_table
              /\ (last'.op = "Set" /\ last'.grew) \/ last'.op = "RemoveAll"
        /\ last'.op = "RemoveAll" =>
              (LiveNodes(This') = {} /\ AllocatedArrays(This') = {}) ]_vars

\* a Remove on a table that has replaced its first bucket array: two nodes and
\* one array remain allocated
C19_Witness ==
    /\ last.op = "Remove" /\ last.ret = "true" /\ last.n0 = 3
    /\ m_tableSizeInfo.prime = 23
    /\ Cardinality(LiveNodes(This)) = 2
    /\ Cardinality(AllocatedArrays(This)) = 1

(***************************************************************************)
(* A reader inside Lookup/FindNode and a writer inside Set, each taking    *)
(* one statement of the code per step.  With exclusive access a thread     *)
(* steps only while the other one is outside its call.                     *)
(***************************************************************************)
\* whether some allocated node holds the key
HasNode(k) == \E a \in NodeAddrs : nodes[a] # FreeNode /\ nodes[a].m_key = k

ReaderOutside == reader.pc \in {"idle", "done"}
WriterOutside == writer.pc = "idle"

ReaderMayStep == ~fault /\ (exclusive => WriterOutside)
WriterMayStep == ~fault /\ (exclusive => ReaderOutside)

\* mutant of StepChain: the walk ends after the first node
StepChainStops(nd, pN, k) == IF Equals(k, nd[pN].m_key) THEN pN ELSE NULL

\* one round of the loop of FindNode: pN = pN->m_next while the key differs
StepChain(nd, pN, k) ==
    IF pN # NULL /\ ~Equals(k, nd[pN].m_key) THEN nd[pN].m_next ELSE pN

LoopGoesOn(nd, pN, k) == pN # NULL /\ ~Equals(k, nd[pN].m_key)

ReaderDone(pN, uaf) ==
    [reader EXCEPT !.pc = "done", !.index = 0, !.pN = pN, !.uaf = uaf]

ReaderReturns(pN) ==
    /\ reader' = ReaderDone(pN, FALSE)
    /\ last' = Call("Lookup", reader.k, 0, IF pN # NULL THEN "true" ELSE "false",
                     FALSE, "", m_tableCount)

\* a call of Lookup(k) begins
ReaderStart ==
    \E k \in Keys :
        /\ ReaderMayStep /\ ReaderOutside
        /\ reader' = [IdleReader EXCEPT !.pc = "prime", !.k = k, !.present = HasNode(k)]
        /\ UNCHANGED <<Behavior, tvars, fault, last, writer, exclusive>>

\* if (m_tableSizeInfo.prime == 0) return NULL;
ReaderPrime ==
    /\ ReaderMayStep /\ reader.pc = "prime"
    /\ IF m_tableSizeInfo.prime = 0
       THEN ReaderReturns(NULL)
       ELSE reader' = [reader EXCEPT !.pc = "index"] /\ UNCHANGED last
    /\ UNCHANGED <<Behavior, tvars, fault, writer, exclusive>>

\* unsigned index = GetIndexForKey(k);
ReaderIndex ==
    /\ ReaderMayStep /\ reader.pc = "index"
    /\ reader' = [reader EXCEPT !.pc = "bucket", !.index = GetIndexForKey(This, reader.k)]
    /\ UNCHANGED <<Behavior, tvars, fault, last, writer, exclusive>>

\* Node* pN = m_table[index]; if (pN == NULL) return NULL;
\* When the array m_table points to has been freed the read is a use after
\* free: the thread crashes, or reads something and goes on; here it reads
\* NULL and returns.
ReaderBucket ==
    /\ ReaderMayStep /\ reader.pc = "bucket"
    /\ IF arrays[m_table] = <<>> \/ reader.index >= Len(arrays[m_table])
       THEN \E crash \in BOOLEAN :
               /\ fault' = crash
               /\ reader' = ReaderDone(NULL, TRUE)
               /\ last' = Call("Lookup", reader.k, 0, IF crash THEN "fault" ELSE "false",
                                FALSE, "", m_tableCount)
       ELSE /\ IF Bucket(This, reader.index) = NULL
               THEN ReaderReturns(NULL)
               ELSE /\ reader' = [reader EXCEPT !.pc = "walk",
                                                !.pN = Bucket(This, reader.index)]
                    /\ UNCHANGED last
            /\ UNCHANGED fault
    /\ UNCHANGED <<Behavior, tvars, writer, exclusive>>

\* while (pN != NULL && !KeyFuncs::Equals(k, pN->m_key)) pN = pN->m_next;
\* return pN;
ReaderWalk ==
    /\ ReaderMayStep /\ reader.pc = "walk"
    /\ IF LoopGoesOn(nodes, reader.pN, reader.k)
       THEN /\ reader' = [reader EXCEPT !.pN = StepChain(nodes, reader.pN, reader.k)]
            /\ UNCHANGED last
       ELSE ReaderReturns(reader.pN)
    /\ UNCHANGED <<Behavior, tvars, fault, writer, exclusive>>

WriterFails(where) ==
    /\ writer' = IdleWriter
    /\ last' = Call("Set", writer.k, writer.v, "NoMemory", FALSE, where, m_tableCount)

\* a call of Set(k, v) begins; the value is always Min(Vals), since FindNode
\* reads no value
WriterStart ==
    \E k \in Keys, v \in {Min(Vals)} :
        /\ WriterMayStep /\ WriterOutside
        /\ writer' = [IdleWriter EXCEPT !.pc = "CheckGrowth", !.k = k, !.v = v]
        /\ UNCHANGED <<Behavior, tvars, fault, last, reader, exclusive>>

\* CheckGrowth, Grow and Reallocate up to the new array filled with NULL
WriterCheckGrowth ==
    \E arrayOk \in BOOLEAN :
        /\ WriterMayStep /\ writer.pc = "CheckGrowth"
        /\ IF ~MustGrow(This)
           THEN /\ writer' = [writer EXCEPT !.pc = "insert"]
                /\ UNCHANGED <<arrays, last>>
           ELSE LET newSize == GrowSize(Behavior, m_tableCount)
                    newPrime == NextPrime(newSize)
                IN  IF LtU32(newSize, U32(m_tableCount))
                    THEN WriterFails("Grow") /\ UNCHANGED arrays
                    ELSE IF newPrime = Overflow
                    THEN WriterFails("NextPrime") /\ UNCHANGED arrays
                    ELSE IF ~arrayOk \/ FreeArrAddrs(This) = {}
                    THEN WriterFails("ArrayAlloc") /\ UNCHANGED arrays
                    ELSE LET newTable == Min(FreeArrAddrs(This))
                         IN  /\ arrays' = [arrays EXCEPT
                                             ![newTable] = [i \in 1..newPrime.prime |-> NULL]]
                             /\ writer' = [writer EXCEPT !.pc = "for", !.newPrime = newPrime,
                                                         !.newTable = newTable, !.i = 0]
                             /\ UNCHANGED last
        /\ UNCHANGED <<Behavior, m_table, m_tableSizeInfo, m_tableCount, m_tableMax,
                       nodes, fault, reader, exclusive>>

\* for (unsigned i = 0; i < m_tableSizeInfo.prime; i++) { Node* pN = m_table[i];
WriterFor ==
    /\ WriterMayStep /\ writer.pc = "for"
    /\ writer' = IF writer.i < m_tableSizeInfo.prime
                 THEN [writer EXCEPT !.pc = "while", !.pN = Bucket(This, writer.i)]
                 ELSE [writer EXCEPT !.pc = "free"]
    /\ UNCHANGED <<Behavior, tvars, fault, last, reader, exclusive>>

\* while (pN != NULL) { pNext = pN->m_next; newIndex = ...;
\*     pN->m_next = newTable[newIndex]; newTable[newIndex] = pN; pN = pNext; }
WriterWhile ==
    /\ WriterMayStep /\ writer.pc = "while"
    /\ IF writer.pN = NULL
       THEN /\ writer' = [writer EXCEPT !.pc = "for", !.i = writer.i + 1]
            /\ UNCHANGED <<nodes, arrays>>
       ELSE LET pNext == nodes[writer.pN].m_next
                newIndex == NewIndex(nodes[writer.pN].m_key, writer.newPrime)
                st == Splice([nodes |-> nodes, newTable |-> arrays[writer.newTable]],
                             writer.pN, newIndex)
            IN  /\ nodes' = st.nodes
                /\ arrays' = [arrays EXCEPT ![writer.newTable] = st.newTable]
                /\ writer' = [writer EXCEPT !.pN = pNext]
    /\ UNCHANGED <<Behavior, m_table, m_tableSizeInfo, m_tableCount, m_tableMax,
                   fault, last, reader, exclusive>>

\* if (m_table != NULL) m_alloc->Free(m_table);
WriterFree ==
    /\ WriterMayStep /\ writer.pc = "free"
    /\ arrays' = FreeTable(This, arrays)
    /\ writer' = [writer EXCEPT !.pc = "m_table"]
    /\ UNCHANGED <<Behavior, m_table, m_tableSizeInfo, m_tableCount, m_tableMax,
                   nodes, fault, last, reader, exclusive>>

\* m_table = newTable;
WriterTable ==
    /\ WriterMayStep /\ writer.pc = "m_table"
    /\ m_table' = writer.newTable
    /\ writer' = [writer EXCEPT !.pc = "m_tableSizeInfo"]
    /\ UNCHANGED <<Behavior, m_tableSizeInfo, m_tableCount, m_tableMax,
                   nodes, arrays, fault, last, reader, exclusive>>

\* m_tableSizeInfo = newPrime;
WriterSizeInfo ==
    /\ WriterMayStep /\ writer.pc = "m_tableSizeInfo"
    /\ m_tableSizeInfo' = writer.newPrime
    /\ writer' = [writer EXCEPT !.pc = "m_tableMax"]
    /\ UNCHANGED <<Behavior, m_table, m_tableCount, m_tableMax,
                   nodes, arrays, fault, last, reader, exclusive>>

\* m_tableMax = (unsigned) (newTableSize * density_numerator / density_denominator);
WriterMax ==
    /\ WriterMayStep /\ writer.pc = "m_tableMax"
    /\ m_tableMax' = TableMax(Behavior, writer.newPrime.prime)
    /\ writer' = [writer EXCEPT !.pc = "insert", !.grew = TRUE]
    /\ UNCHANGED <<Behavior, m_table, m_tableSizeInfo, m_tableCount,
                   nodes, arrays, fault, last, reader, exclusive>>

\* the rest of Set: find the key, overwrite its value or link a new node
WriterInsert ==
    /\ WriterMayStep /\ writer.pc = "insert"
    /\ \E nodeOk \in BOOLEAN :
          \E r \in {SetBody(This, writer.k, writer.v, nodeOk, writer.grew)} :
              /\ Commit(r.t)
              /\ last' = Call("Set", writer.k, writer.v, r.ret, r.grew, r.fail, m_tableCount)
    /\ writer' = IdleWriter
    /\ UNCHANGED <<Behavior, fault, reader, exclusive>>

ConcurrentInit ==
    /\ Behavior \in Behaviors
    /\ m_table = NULL
    /\ m_tableSizeInfo = NoPrimeInfo
    /\ m_tableCount = 0
    /\ m_tableMax = 0
    /\ nodes = [a \in NodeAddrs |-> FreeNode]
    /\ arrays = [a \in ArrAddrs |-> <<>>]
    /\ fault = FALSE
    /\ last = Call("new", 0, 0, "void", FALSE, "", 0)
    /\ reader = IdleReader
    /\ writer = IdleWriter
    /\ exclusive \in BOOLEAN

ConcurrentNext ==
    \/ ReaderStart \/ ReaderPrime \/ ReaderIndex \/ ReaderBucket \/ ReaderWalk
    \/ WriterStart \/ WriterCheckGrowth \/ WriterFor \/ WriterWhile \/ WriterFree
    \/ WriterTable \/ WriterSizeInfo \/ WriterMax \/ WriterInsert

ConcurrentSpec == ConcurrentInit /\ [][ConcurrentNext]_vars

\* the reader returned NULL for a key that had a node during its whole call
ReaderMissed ==
    reader.pc = "done" /\ ~reader.uaf /\ reader.present /\ reader.pN = NULL

\* C20: when every call has exclusive access, a Lookup never reads a freed
\* bucket array and returns the node of its key exactly when the key is
\* present; a Lookup that runs while a Set is inside Reallocate can read
\* m_table[index] after the array was freed, or miss a present key.
C20_ExclusiveAccessIsSafe ==
    exclusive =>
        /\ ~reader.uaf
        /\ ~ReaderMissed
        /\ reader.pc = "done" =>
              /\ (reader.pN # NULL) = reader.present
              /\ reader.pN # NULL => nodes[reader.pN].m_key = reader.k
        /\ ~(ReaderOutside /\ WriterOutside) => (ReaderOutside \/ WriterOutside)

\* the reader dereferenced m_table between the writer's Free(m_table) and its
\* m_table = newTable
C20_Witness ==
    /\ ~exclusive
    /\ reader.uaf
    /\ writer.pc = "m_table"
    /\ m_table # NULL /\ arrays[m_table] = <<>>

=============================================================================
